---- MODULE Spec2Model ----
(***************************************************************************)
(* Model of the deduplicating object store of objstore.py: one ObjectStore *)
(* shared by threads that call put(), get() and delete().                  *)
(*                                                                         *)
(* The file system is modelled with directory entries and inodes, so that  *)
(* an open file object keeps reading the file it opened after os.remove()  *)
(* or os.rename() changed the directory.  A file is the sequence of its    *)
(* bytes; the reference count is the HEADER_SIZE-byte field struct packs.  *)
(***************************************************************************)
EXTENDS Integers, Sequences, FiniteSets, TLC

\* ------------------------------------------------------------------ bounds
MaxLen == 2           \* longest blob given to put()
MaxCalls == 4         \* calls of put/get/delete made in one run

\* ------------------------------------------------------- program constants
HEADER_SIZE == 8

\* Two threads share the store.  Every race of the store is between a step
\* one call makes without the lock (writing its temporary file, reading the
\* file it opened) and the calls another thread makes meanwhile.
Threads == {1, 2}

\* The byte values blobs are made of: blobs differ by their length.
ByteVals == {65}
\* The object ids a run can use or name: one for each call, after the two of
\* the store of InitTwoPuts, and one that is never allocated.
Handles == 1..(MaxCalls + 3)

RECURSIVE SeqsUpTo(_)
SeqsUpTo(n) ==
    IF n = 0 THEN {<< >>}
    ELSE LET S == SeqsUpTo(n - 1)
         IN  S \cup {Append(s, b) : s \in {x \in S : Len(x) = n - 1}, b \in ByteVals}

Blobs == SeqsUpTo(MaxLen)

Range(f) == {f[x] : x \in DOMAIN f}

\* Option values: None is << >>, Some(x) is <<x>>.
None == << >>
Some(x) == <<x>>

\* ------------------------------------------------------------- pure helpers

\* hashlib.sha1(data).hexdigest(): a deterministic digest of the bytes.  It is
\* modelled by a positional code of the byte sequence, which like sha1 on the
\* blobs of the model gives different blobs different digests (a number in
\* base 257 whose digits are the bytes plus one).
RECURSIVE sha1(_)
sha1(data) ==
    IF data = << >> THEN 0 ELSE (Head(data) + 1) + 257 * sha1(Tail(data))

\* os.path.join(self.datadir, hashcode)
DataPath(hashcode) == <<hashcode>>

\* A temporary name that does not include the object id.
TmpPath_NoOid(datapath, o) == datapath \o <<0>>

\* "%s.%d" % (datapath, oid)
TmpPath(datapath, o) == datapath \o <<o>>

\* struct.pack("q", rc): HEADER_SIZE bytes, least significant first.
RECURSIVE PackBytes(_, _)
PackBytes(v, n) ==
    IF n = 0 THEN << >> ELSE <<v % 256>> \o PackBytes(v \div 256, n - 1)

pack(rc) == PackBytes(rc, HEADER_SIZE)

\* struct.unpack("q", b)[0] for a buffer of exactly HEADER_SIZE bytes.  The
\* headers a store holds are the zero bytes of a new file or a packed count
\* rc > 0 (line 47), so the sign bit of the field is never set.
RECURSIVE UnpackBytes(_)
UnpackBytes(b) ==
    IF b = << >> THEN 0 ELSE Head(b) + 256 * UnpackBytes(Tail(b))

unpack(b) == UnpackBytes(b)

\* f.read(n) at position pos (0-based) of a file holding bytes.
ReadAt(bytes, pos, n) ==
    SubSeq(bytes, pos + 1, IF pos + n < Len(bytes) THEN pos + n ELSE Len(bytes))

\* f.read() at position pos: the bytes up to the end of the file.
ReadRest(bytes, pos) == SubSeq(bytes, pos + 1, Len(bytes))

\* f.write(b) at position pos of a file holding bytes: a write of no bytes
\* changes nothing; a write past the end fills the hole with zero bytes.
WriteAt(bytes, pos, b) ==
    IF b = << >> THEN bytes
    ELSE LET n == IF pos + Len(b) > Len(bytes) THEN pos + Len(b) ELSE Len(bytes)
         IN  [i \in 1..n |->
                IF i > pos /\ i <= pos + Len(b) THEN b[i - pos]
                ELSE IF i <= Len(bytes) THEN bytes[i] ELSE 0]

\* Lines 139-141: f.seek(HEADER_SIZE), f.write(data) on the file just opened.
TmpFileBytes(bytes, d) == WriteAt(bytes, HEADER_SIZE, d)

\* update_rc without its f.seek(0): the count is written behind the header.
update_rc_NoSeek(bytes, offset) ==
    LET hdr == ReadAt(bytes, 0, HEADER_SIZE)
    IN  IF Len(hdr) # HEADER_SIZE
        THEN [raised |-> TRUE, rc |-> 0, bytes |-> bytes]
        ELSE LET rc == unpack(hdr) + offset
             IN  [raised |-> FALSE, rc |-> rc,
                  bytes |-> IF rc > 0 THEN WriteAt(bytes, HEADER_SIZE, pack(rc))
                            ELSE bytes]

\* update_rc(datafile, offset) on a file holding bytes:
\* [raised, rc, bytes] with raised TRUE when struct.unpack raises.
update_rc(bytes, offset) ==
    LET hdr == ReadAt(bytes, 0, HEADER_SIZE)
    IN  IF Len(hdr) # HEADER_SIZE
        THEN [raised |-> TRUE, rc |-> 0, bytes |-> bytes]
        ELSE LET rc == unpack(hdr) + offset
             IN  [raised |-> FALSE, rc |-> rc,
                  bytes |-> IF rc > 0 THEN WriteAt(bytes, 0, pack(rc)) ELSE bytes]

\* Allocation that reads the pool without popping from it.
Allocate_NoPop(free, ctr) ==
    IF free # << >>
    THEN [oid |-> free[Len(free)], free |-> free, ctr |-> ctr]
    ELSE [oid |-> ctr + 1, free |-> free, ctr |-> ctr + 1]

\* Allocation that never reuses: the pool is ignored.
Allocate_IgnorePool(free, ctr) == [oid |-> ctr + 1, free |-> free, ctr |-> ctr + 1]

\* Lines 126-130: the next object id, from the free pool or the counter.
Allocate(free, ctr) ==
    IF free # << >>
    THEN [oid |-> free[Len(free)], free |-> SubSeq(free, 1, Len(free) - 1), ctr |-> ctr]
    ELSE [oid |-> ctr + 1, free |-> free, ctr |-> ctr + 1]

\* A delete that does not give the object id back.
Release_Drop(free, o) == free

\* A delete that appends the object id, so that pop() takes the last one freed.
Release_Append(free, o) == Append(free, o)

\* Line 203: self.free_objectids.insert(0, oid)
Release(free, o) == <<o>> \o free

\* update_rc that passes over a missing file instead of raising.
UpdateFile_Swallow(d, ino, datapath, offset) ==
    IF datapath \notin DOMAIN d
    THEN [raised |-> FALSE, rc |-> 1, inodes |-> ino]
    ELSE LET u == update_rc(ino[d[datapath]], offset)
         IN  [raised |-> u.raised, rc |-> u.rc,
              inodes |-> [j \in DOMAIN ino |->
                            IF j = d[datapath] THEN u.bytes ELSE ino[j]]]

\* Lines 38-52: update_rc(datafile, offset) on the file that the directory d
\* has at datapath: open(datafile, 'rb+') raises IOError when there is none.
\* [raised, rc, inodes], inodes being the files after the call.
UpdateFile(d, ino, datapath, offset) ==
    IF datapath \notin DOMAIN d
    THEN [raised |-> TRUE, rc |-> 0, inodes |-> ino]
    ELSE LET u == update_rc(ino[d[datapath]], offset)
         IN  [raised |-> u.raised, rc |-> u.rc,
              inodes |-> [j \in DOMAIN ino |->
                            IF j = d[datapath] THEN u.bytes ELSE ino[j]]]

\* ------------------------------------------------------------------- state
VARIABLES
    lock,            \* self.lock: 0 when free, else the thread that acquired it
    objectid,        \* self.objectid
    free_objectids,  \* self.free_objectids
    links,           \* the files of links/: object id -> the hashcode written
    dir,             \* the entries of data/: path -> inode
    inodes,          \* inode -> the bytes of the file
    pc,              \* where each thread is in its call
    data,            \* put(): the argument data
    oid,             \* put(): the local oid; get(), delete(): the argument oid
    fhandle,         \* the inode of the file object a thread has open (0: none)
    ret,             \* the outcome of the last call of each thread: op, the
                     \* object id h (returned by put, given to get and delete),
                     \* bytes (put: Some(data given); get: the value returned,
                     \* None for absent; delete: what live held for h), raised
    live,            \* history: object id -> Some(data) from the return of the
                     \* put that gave it until a delete has removed its link
    obs,             \* history: what the call of each thread has seen so far
    ncalls,          \* history: number of calls made so far
    statefile,       \* the state file: None, or Some(the text json.dump wrote)
    closed,          \* close() has been called on this ObjectStore
    freed            \* history: the free object ids, in the order they were freed

vars == <<lock, objectid, free_objectids, links, dir, inodes, pc, data, oid,
          fhandle, ret, live, obs, ncalls, statefile, closed, freed>>

store == <<objectid, free_objectids, links, dir, inodes>>

NoRet == [op |-> "none", h |-> 0, bytes |-> None, raised |-> FALSE]
NoObs == [expect |-> None, pinned |-> None, linked |-> FALSE,
          unlinked |-> FALSE, recreated |-> FALSE, reissued |-> FALSE, pool |-> 0,
          discarded |-> FALSE]

\* __init__ on a directory without state file, links or data files.
Init ==
    /\ lock = 0
    /\ objectid = 0
    /\ free_objectids = << >>
    /\ links = << >>
    /\ dir = << >>
    /\ inodes = << >>
    /\ pc = [t \in Threads |-> "idle"]
    /\ data = [t \in Threads |-> << >>]
    /\ oid = [t \in Threads |-> 0]
    /\ fhandle = [t \in Threads |-> 0]
    /\ ret = [t \in Threads |-> NoRet]
    /\ live = [h \in Handles |-> None]
    /\ obs = [t \in Threads |-> NoObs]
    /\ ncalls = 0
    /\ statefile = None
    /\ closed = FALSE
    /\ freed = << >>

\* ------------------------------------------------------------ file system
exists(d, path) == path \in DOMAIN d

\* An inode number not in use.
NewInode(ino) == CHOOSE i \in 1..(Cardinality(DOMAIN ino) + 1) : i \notin DOMAIN ino

\* The inodes that a directory entry or an open file object still refers to.
Reclaim(ino, d, fh) ==
    [i \in (DOMAIN ino) \cap (Range(d) \cup Range(fh)) |-> ino[i]]

\* os.remove(path)
Remove(d, path) == [p \in (DOMAIN d) \ {path} |-> d[p]]

\* os.rename(src, dst)
Rename(d, src, dst) ==
    [p \in ((DOMAIN d) \ {src}) \cup {dst} |-> IF p = dst THEN d[src] ELSE d[p]]

\* A directory entry path -> i added or replaced.
Bind(d, path, i) == [p \in (DOMAIN d) \cup {path} |-> IF p = path THEN i ELSE d[p]]

\* A file's bytes replaced.
SetBytes(ino, i, bytes) == [j \in (DOMAIN ino) \cup {i} |-> IF j = i THEN bytes ELSE ino[j]]

\* add_link(hashcode, dst)
add_link(lk, hashcode, o) ==
    [h \in (DOMAIN lk) \cup {o} |-> IF h = o THEN hashcode ELSE lk[h]]

\* read_link(src)
read_link(lk, o) == lk[o]

\* ---------------------------------------------------------------- put(data)
InPut(t) == pc[t] \in {"put_alloc", "put_open", "put_write", "put_reacquire",
                       "put_install", "put_link"}
InGet(t) == pc[t] \in {"get_resolve", "get_read"}
InDelete(t) == pc[t] = "del_body"

\* A thread may make a call when it is not in one and the run has calls left.
\* The threads are interchangeable, so they make their first calls in the
\* order of their numbers.
Fresh(t) == pc[t] = "idle" /\ ret[t].op = "none"
MayCall(t) ==
    /\ pc[t] = "idle"
    /\ ~closed
    /\ ncalls < MaxCalls
    /\ Fresh(t) => \A u \in Threads : u < t => ~Fresh(u)

\* The object ids given to get() and delete(): those the counter has reached
\* and the next one, which stands for every id never allocated so far.
Args == 1..(objectid + 1)

\* Lines 117-124: a thread calls put(d); hashcode and datapath are computed
\* from d, and the call goes on when it has acquired the lock.
PutCall(t, d) ==
    /\ MayCall(t)
    /\ lock = 0
    /\ lock' = t
    /\ pc' = [pc EXCEPT ![t] = "put_alloc"]
    /\ data' = [data EXCEPT ![t] = d]
    /\ ret' = [ret EXCEPT ![t] = NoRet]
    /\ obs' = [obs EXCEPT ![t] = NoObs]
    /\ ncalls' = ncalls + 1
    /\ UNCHANGED <<store, oid, fhandle, live, statefile, closed, freed>>

\* A put that keeps the lock while it writes its temporary file.
ReleaseForWrite_Keep(l, found) == l

\* Lines 133-135: self.lock.release() when the content file is not found.
ReleaseForWrite(l, found) == IF found THEN l ELSE 0

\* Lines 126-135: the object id, and the test for the content file; the lock
\* is released when the content file has to be written.
PutAlloc(t) ==
    /\ pc[t] = "put_alloc"
    /\ LET a == Allocate(free_objectids, objectid)
       IN  /\ oid' = [oid EXCEPT ![t] = a.oid]
           /\ free_objectids' = a.free
           /\ objectid' = a.ctr
           /\ obs' = [obs EXCEPT ![t].reissued = (a.oid \in Range(free_objectids)),
                                 ![t].pool = Len(free_objectids)]
           /\ freed' = SelectSeq(freed, LAMBDA h : h # a.oid)
    /\ pc' = [pc EXCEPT ![t] = IF exists(dir, DataPath(sha1(data[t])))
                                THEN "put_link" ELSE "put_open"]
    /\ lock' = ReleaseForWrite(lock, exists(dir, DataPath(sha1(data[t]))))
    /\ UNCHANGED <<links, dir, inodes, data, fhandle, ret, live, ncalls,
                   statefile, closed>>

\* Lines 136-137: f = open(tmpfile, 'wb') creates the file or truncates it.
PutOpen(t) ==
    /\ pc[t] = "put_open"
    /\ LET tmpfile == TmpPath(DataPath(sha1(data[t])), oid[t])
           i == IF exists(dir, tmpfile) THEN dir[tmpfile] ELSE NewInode(inodes)
       IN  /\ dir' = Bind(dir, tmpfile, i)
           /\ inodes' = SetBytes(inodes, i, << >>)
           /\ fhandle' = [fhandle EXCEPT ![t] = i]
    /\ pc' = [pc EXCEPT ![t] = "put_write"]
    /\ UNCHANGED <<lock, objectid, free_objectids, links, data, oid, ret, live,
                   obs, ncalls, statefile, closed, freed>>

\* Lines 139-142: the header is skipped, the data written, the file closed.
PutWrite(t) ==
    /\ pc[t] = "put_write"
    /\ LET fh == [fhandle EXCEPT ![t] = 0]
           ino == SetBytes(inodes, fhandle[t],
                           TmpFileBytes(inodes[fhandle[t]], data[t]))
       IN  /\ fhandle' = fh
           /\ inodes' = Reclaim(ino, dir, fh)
    /\ pc' = [pc EXCEPT ![t] = "put_reacquire"]
    /\ UNCHANGED <<lock, objectid, free_objectids, links, dir, data, oid, ret,
                   live, obs, ncalls, statefile, closed, freed>>

\* Line 143: self.lock.acquire()
PutReacquire(t) ==
    /\ pc[t] = "put_reacquire"
    /\ lock = 0
    /\ lock' = t
    /\ pc' = [pc EXCEPT ![t] = "put_install"]
    /\ UNCHANGED <<store, data, oid, fhandle, ret, live, obs, ncalls,
                   statefile, closed, freed>>

\* Install that leaves the temporary file when the content file exists.
Install_KeepTmp(d, datapath, tmpfile) ==
    IF exists(d, datapath) THEN d ELSE Rename(d, tmpfile, datapath)

\* Install without the second test for the content file.
Install_AlwaysRename(d, datapath, tmpfile) == Rename(d, tmpfile, datapath)

\* Lines 146-150: the temporary file is removed when the content file exists
\* by now, and renamed to the content file otherwise.
Install(d, datapath, tmpfile) ==
    IF exists(d, datapath) THEN Remove(d, tmpfile) ELSE Rename(d, tmpfile, datapath)

PutInstall(t) ==
    /\ pc[t] = "put_install"
    /\ LET datapath == DataPath(sha1(data[t]))
           tmpfile == TmpPath(datapath, oid[t])
       IN  IF exists(dir, tmpfile)
           THEN /\ dir' = Install(dir, datapath, tmpfile)
                /\ inodes' = Reclaim(inodes, dir', fhandle)
                /\ pc' = [pc EXCEPT ![t] = "put_link"]
                /\ ret' = ret
                /\ obs' = [obs EXCEPT ![t].discarded = exists(dir, datapath)]
           ELSE \* os.remove or os.rename raises OSError
                /\ pc' = [pc EXCEPT ![t] = "raised"]
                /\ ret' = [ret EXCEPT ![t] = [op |-> "put", h |-> 0,
                                              bytes |-> Some(data[t]), raised |-> TRUE]]
                /\ UNCHANGED <<dir, inodes, obs>>
    /\ UNCHANGED <<lock, objectid, free_objectids, links, data, oid, fhandle,
                   live, ncalls, statefile, closed, freed>>

\* Lines 153-159: the link is written, the reference count incremented, the
\* lock released and oid returned.  An exception of update_rc leaves put with
\* the lock still acquired.
PutLink(t) ==
    /\ pc[t] = "put_link"
    /\ LET hashcode == sha1(data[t])
           datapath == DataPath(hashcode)
           u == UpdateFile(dir, inodes, datapath, 1)
       IN  /\ links' = add_link(links, hashcode, oid[t])
           /\ IF u.raised
              THEN /\ pc' = [pc EXCEPT ![t] = "raised"]
                   /\ ret' = [ret EXCEPT ![t] = [op |-> "put", h |-> 0,
                                                 bytes |-> Some(data[t]), raised |-> TRUE]]
                   /\ UNCHANGED <<lock, inodes, live, data, oid>>
              ELSE /\ inodes' = u.inodes
                   /\ lock' = 0
                   /\ pc' = [pc EXCEPT ![t] = "idle"]
                   /\ ret' = [ret EXCEPT ![t] = [op |-> "put", h |-> oid[t],
                                                 bytes |-> Some(data[t]), raised |-> FALSE]]
                   /\ live' = [live EXCEPT ![oid[t]] = Some(data[t])]
                   /\ data' = [data EXCEPT ![t] = << >>]
                   /\ oid' = [oid EXCEPT ![t] = 0]
    /\ UNCHANGED <<objectid, free_objectids, dir, fhandle, obs, ncalls,
                   statefile, closed, freed>>

\* ----------------------------------------------------------------- get(oid)
\* Lines 161-167: a thread calls get(o), and the call goes on when it has
\* acquired the lock.
GetCall(t, o) ==
    /\ MayCall(t)
    /\ lock = 0
    /\ lock' = t
    /\ pc' = [pc EXCEPT ![t] = "get_resolve"]
    /\ oid' = [oid EXCEPT ![t] = o]
    /\ ret' = [ret EXCEPT ![t] = NoRet]
    /\ obs' = [obs EXCEPT ![t] = [NoObs EXCEPT !.expect = live[o],
                                           !.linked = (o \in DOMAIN links)]]
    /\ ncalls' = ncalls + 1
    /\ UNCHANGED <<store, data, fhandle, live, statefile, closed, freed>>

\* Lines 168-172 (and 182 when there is no link): the link is read and the
\* content file opened under the lock.
GetResolve(t) ==
    /\ pc[t] = "get_resolve"
    /\ IF oid[t] \in DOMAIN links
       THEN LET datapath == DataPath(read_link(links, oid[t]))
            IN  IF exists(dir, datapath)
                THEN /\ fhandle' = [fhandle EXCEPT ![t] = dir[datapath]]
                     /\ lock' = 0
                     /\ pc' = [pc EXCEPT ![t] = "get_read"]
                     /\ obs' = [obs EXCEPT ![t].pinned = live[oid[t]]]
                     /\ UNCHANGED <<ret, oid>>
                ELSE \* open raises IOError
                     /\ pc' = [pc EXCEPT ![t] = "raised"]
                     /\ ret' = [ret EXCEPT ![t] = [op |-> "get", h |-> oid[t],
                                                   bytes |-> None, raised |-> TRUE]]
                     /\ UNCHANGED <<lock, fhandle, obs, oid>>
       ELSE /\ lock' = 0
            /\ pc' = [pc EXCEPT ![t] = "idle"]
            /\ ret' = [ret EXCEPT ![t] = [op |-> "get", h |-> oid[t],
                                          bytes |-> None, raised |-> FALSE]]
            /\ oid' = [oid EXCEPT ![t] = 0]
            /\ UNCHANGED <<fhandle, obs>>
    /\ UNCHANGED <<store, data, live, ncalls, statefile, closed, freed>>

\* A read that does not skip the header.
ReadContent_NoSkip(bytes) == ReadRest(bytes, 0)

\* Lines 176-178: the bytes get reads from the file object it opened.
ReadContent(bytes) ==
    LET hdr == ReadAt(bytes, 0, HEADER_SIZE)
    IN  ReadRest(bytes, Len(hdr))

\* Lines 174-180: outside the lock, the header is skipped and the data read
\* from the open file object, which is then closed.
GetRead(t) ==
    /\ pc[t] = "get_read"
    /\ LET d == ReadContent(inodes[fhandle[t]])
           fh == [fhandle EXCEPT ![t] = 0]
           gone == fhandle[t] \notin Range(dir)
       IN  /\ ret' = [ret EXCEPT ![t] = [op |-> "get", h |-> oid[t],
                                         bytes |-> Some(d), raised |-> FALSE]]
           /\ fhandle' = fh
           /\ inodes' = Reclaim(inodes, dir, fh)
           /\ obs' = [obs EXCEPT ![t].unlinked = gone,
                                 ![t].recreated = gone /\ exists(dir, DataPath(sha1(d)))]
    /\ pc' = [pc EXCEPT ![t] = "idle"]
    /\ oid' = [oid EXCEPT ![t] = 0]
    /\ UNCHANGED <<lock, objectid, free_objectids, links, dir, data, live, ncalls,
                   statefile, closed, freed>>

\* -------------------------------------------------------------- delete(oid)
\* Lines 184-189: a thread calls delete(o), and the call goes on when it has
\* acquired the lock.
DeleteCall(t, o) ==
    /\ MayCall(t)
    /\ lock = 0
    /\ lock' = t
    /\ pc' = [pc EXCEPT ![t] = "del_body"]
    /\ oid' = [oid EXCEPT ![t] = o]
    /\ ret' = [ret EXCEPT ![t] = NoRet]
    /\ obs' = [u \in Threads |->
                 IF u = t THEN NoObs
                 ELSE IF InGet(u) /\ oid[u] = o THEN [obs[u] EXCEPT !.expect = None]
                 ELSE obs[u]]
    /\ ncalls' = ncalls + 1
    /\ UNCHANGED <<store, data, fhandle, live, statefile, closed, freed>>

\* The content file removed one reference too early.
LastReference_OffByOne(rc) == rc <= 1

\* A delete that leaves the link file in place.
remove_link_Keep(lk, o) == lk

\* Line 196: rc == 0, nobody needs the content file any more.
LastReference(rc) == rc = 0

\* Line 200: os.remove(objpath)
remove_link(lk, o) == [h \in (DOMAIN lk) \ {o} |-> lk[h]]

\* Lines 190-205: with a link, the reference count is decremented, the content
\* file removed at zero, the link removed and the object id freed.  An
\* exception of update_rc leaves delete with the lock still acquired.
DeleteBody(t) ==
    /\ pc[t] = "del_body"
    /\ IF oid[t] \in DOMAIN links
       THEN LET datapath == DataPath(read_link(links, oid[t]))
                u == UpdateFile(dir, inodes, datapath, -1)
            IN  IF u.raised
                THEN /\ pc' = [pc EXCEPT ![t] = "raised"]
                     /\ ret' = [ret EXCEPT ![t] = [op |-> "delete", h |-> oid[t],
                                                   bytes |-> None, raised |-> TRUE]]
                     /\ UNCHANGED <<lock, store, live, oid, freed>>
                ELSE /\ dir' = IF LastReference(u.rc) THEN Remove(dir, datapath) ELSE dir
                     /\ inodes' = Reclaim(u.inodes, dir', fhandle)
                     /\ links' = remove_link(links, oid[t])
                     /\ free_objectids' = Release(free_objectids, oid[t])
                     /\ freed' = Append(freed, oid[t])
                     /\ live' = [live EXCEPT ![oid[t]] = None]
                     /\ lock' = 0
                     /\ pc' = [pc EXCEPT ![t] = "idle"]
                     /\ ret' = [ret EXCEPT ![t] = [op |-> "delete", h |-> oid[t],
                                                   bytes |-> live[oid[t]], raised |-> FALSE]]
                     /\ oid' = [oid EXCEPT ![t] = 0]
                     /\ UNCHANGED objectid
       ELSE /\ lock' = 0
            /\ pc' = [pc EXCEPT ![t] = "idle"]
            /\ ret' = [ret EXCEPT ![t] = [op |-> "delete", h |-> oid[t],
                                          bytes |-> None, raised |-> FALSE]]
            /\ oid' = [oid EXCEPT ![t] = 0]
            /\ UNCHANGED <<store, live, freed>>
    /\ UNCHANGED <<data, fhandle, obs, ncalls, statefile, closed>>

\* ------------------------------------------------------------ specification
Next ==
    \E t \in Threads :
        \/ \E d \in Blobs : PutCall(t, d)
        \/ PutAlloc(t)
        \/ PutOpen(t)
        \/ PutWrite(t)
        \/ PutReacquire(t)
        \/ PutInstall(t)
        \/ PutLink(t)
        \/ \E o \in Args : GetCall(t, o)
        \/ GetResolve(t)
        \/ GetRead(t)
        \/ \E o \in Args : DeleteCall(t, o)
        \/ DeleteBody(t)

Spec == Init /\ [][Next]_vars

\* ------------------------------------------------------- close() and reopen
\* The decimal text json.dump writes for an integer n >= 0, as its digits.
RECURSIVE Digits(_)
Digits(n) == IF n < 10 THEN <<n>> ELSE Append(Digits(n \div 10), n % 10)

\* The integer json.load reads from the digits of a decimal text.
RECURSIVE ParseInt(_)
ParseInt(ds) ==
    IF ds = << >> THEN 0
    ELSE 10 * ParseInt(SubSeq(ds, 1, Len(ds) - 1)) + ds[Len(ds)]

\* A state file that forgets the free pool.
dump_NoPool(ctr, free) == [object_id |-> Digits(ctr), free_objectids |-> << >>]

\* Lines 94-96: json.dump of {"object_id": ctr, "free_objectids": free}, the
\* members of the object with the text of their values.
dump(ctr, free) ==
    [object_id |-> Digits(ctr),
     free_objectids |-> [i \in 1..Len(free) |-> Digits(free[i])]]

\* Lines 103-109: json.load of the state file, or the defaults without one.
load(sf) ==
    IF sf = None
    THEN [object_id |-> 0, free_objectids |-> << >>]
    ELSE LET text == sf[1]
         IN  [object_id |-> ParseInt(text.object_id),
              free_objectids |-> [i \in 1..Len(text.free_objectids) |->
                                    ParseInt(text.free_objectids[i])]]

\* Lines 111-115: close() while no call is in flight; _store_states writes the
\* state file.  It takes no lock.  No call is made on a closed store.
Close ==
    /\ ~closed
    /\ ncalls < MaxCalls
    /\ \E t \in Threads : pc[t] = "idle"
    /\ \A t \in Threads : pc[t] \in {"idle", "raised"}
    /\ statefile' = Some(dump(objectid, free_objectids))
    /\ closed' = TRUE
    /\ ncalls' = ncalls + 1
    /\ UNCHANGED <<lock, store, pc, data, oid, fhandle, ret, live, obs, freed>>

\* Lines 76-88 and 99-109: the process ends and a new one constructs an
\* ObjectStore on the same directory: a new lock, the counter and the pool
\* loaded from the state file, and threads that have made no call.
Reopen ==
    /\ closed
    /\ LET st == load(statefile)
       IN  /\ objectid' = st.object_id
           /\ free_objectids' = st.free_objectids
    /\ lock' = 0
    /\ closed' = FALSE
    /\ pc' = [t \in Threads |-> "idle"]
    /\ data' = [t \in Threads |-> << >>]
    /\ oid' = [t \in Threads |-> 0]
    /\ fhandle' = [t \in Threads |-> 0]
    /\ ret' = [t \in Threads |-> NoRet]
    /\ obs' = [t \in Threads |-> NoObs]
    /\ UNCHANGED <<links, dir, inodes, live, ncalls, statefile, freed>>

NextReopen == Next \/ Close \/ Reopen

SpecReopen == Init /\ [][NextReopen]_vars

\* --------------------------------------- a content file removed from outside
\* Something other than the store removes a content file from data/ (the
\* os.remove of another process): the links to its digest (lines 168-171,
\* 189-192) are left without their file.
Tamper(p) ==
    /\ exists(dir, p)
    /\ ncalls < MaxCalls
    /\ dir' = Remove(dir, p)
    /\ inodes' = Reclaim(inodes, dir', fhandle)
    /\ ncalls' = ncalls + 1
    /\ UNCHANGED <<lock, objectid, free_objectids, links, pc, data, oid, fhandle,
                   ret, live, obs, statefile, closed, freed>>

NextTamper == Next \/ \E x \in Blobs : Tamper(DataPath(sha1(x)))

SpecTamper == Init /\ [][NextTamper]_vars

TypeOK ==
    /\ lock \in Threads \cup {0}
    /\ objectid \in 0..(MaxCalls + 2)
    /\ \A h \in DOMAIN links : h \in 1..objectid

\* ----------------------------------------------------- derived store values
\* The object ids whose link holds hashcode.
LinksTo(hashcode) == {h \in DOMAIN links : links[h] = hashcode}

\* The bytes of the file at a path of data/.
FileBytes(path) == inodes[dir[path]]

\* The paths of data/ that are content files, and those that are temporary.
Canonical == {p \in DOMAIN dir : Len(p) = 1}
Temporary == {p \in DOMAIN dir : Len(p) = 2}

\* The reference count in the header of the content file of hashcode.
RefCount(hashcode) == unpack(ReadAt(FileBytes(DataPath(hashcode)), 0, HEADER_SIZE))

\* The content files as a reader of data/ sees them.
Files == [p \in Canonical |-> FileBytes(p)]

\* A put that has its object id (lines 131-157).
HoldsOid(t) == pc[t] \in {"put_open", "put_write", "put_reacquire", "put_install",
                          "put_link"}

Returned(t, o) == ret[t].op = o /\ ~ret[t].raised

\* A put that has released the lock to write its temporary file and has not
\* acquired it again (lines 135-143).
Writing(t) == pc[t] \in {"put_open", "put_write", "put_reacquire"}

\* A put whose temporary path is in use: from the choice of the name to the
\* removal or the rename of the file (lines 136-150).
UsesTmp(t) == pc[t] \in {"put_open", "put_write", "put_reacquire", "put_install"}

\* tmpfile of the put of thread t (line 136).
TmpOf(t) == TmpPath(DataPath(sha1(data[t])), oid[t])

\* A thread at the file I/O of its call: the temporary file of put being
\* opened and written (lines 137-142), the opened file of get being read
\* (lines 176-179).
BulkIO(t) == pc[t] \in {"put_open", "put_write", "get_read"}

\* ------------------------------------------- a store holding two objects
\* The store after thread 1 and then thread 2 have each put the one-byte blob
\* on an empty store (the two puts of lines 117-159 run one after the other),
\* when n calls have been counted.
TwoPuts(n) ==
    LET x == <<65>>
        r == [t \in Threads |->
                [op |-> "put", h |-> t, bytes |-> Some(x), raised |-> FALSE]]
    IN  /\ lock = 0
        /\ objectid = 2
        /\ free_objectids = << >>
        /\ links = [h \in {1, 2} |-> sha1(x)]
        /\ dir = [p \in {DataPath(sha1(x))} |-> 1]
        /\ inodes = [i \in {1} |-> pack(2) \o x]
        /\ pc = [t \in Threads |-> "idle"]
        /\ data = [t \in Threads |-> << >>]
        /\ oid = [t \in Threads |-> 0]
        /\ fhandle = [t \in Threads |-> 0]
        /\ ret = r
        /\ live = [h \in Handles |-> IF h \in {1, 2} THEN Some(x) ELSE None]
        /\ obs = [t \in Threads |-> NoObs]
        /\ ncalls = n
        /\ statefile = None
        /\ closed = FALSE
        /\ freed = << >>

\* The calls of Spec made on the store that holds the two objects.
InitTwoPuts == TwoPuts(0)

SpecTwoPuts == InitTwoPuts /\ [][Next]_vars

\* The store of InitTwoPuts is a store that two puts leave.
TwoPutsReached == TwoPuts(2)

\* ------------------------------------------------------------------ claims

\* C1: round trip.  For every byte sequence x, the empty one included, put(x)
\* returns a handle h, and a get(h) that follows returns exactly x.
C1_RoundTrip ==
    /\ \A t \in Threads : ret[t].op = "put" => ~ret[t].raised
    /\ \A t \in Threads :
         (Returned(t, "get") /\ obs[t].expect # None) => ret[t].bytes = obs[t].expect

\* C2: once put(bytes) has returned h, a get(h) returns bytes as long as no
\* delete(h) has been called, whatever other threads do with other handles.
\* (obs.expect is what put returned for h when get was called; a delete(h)
\* called during the get resets it.)
C2_GetYieldsBytes ==
    \A t \in Threads :
        (ret[t].op = "get" /\ obs[t].expect # None)
            => (~ret[t].raised /\ ret[t].bytes = obs[t].expect)

\* C2 witness: a get returned the bytes of its handle after another handle
\* bound to the same content had been deleted.
C2_Witness ==
    \E t, u \in Threads :
        /\ Returned(t, "get") /\ obs[t].expect # None /\ ret[t].bytes = obs[t].expect
        /\ Returned(u, "delete") /\ ret[u].h # ret[t].h /\ ret[u].bytes = ret[t].bytes

\* C3: whenever no thread holds the lock, a content file exists iff some link
\* points at its digest, its reference count is the number of those links
\* (so never negative), and the links to a content x are exactly the handles
\* that puts of x returned and no delete has removed (n - k of them).
C3_RefCount ==
    lock = 0 =>
        /\ \A p \in Canonical : LinksTo(p[1]) # {}
        /\ \A h \in DOMAIN links :
             /\ exists(dir, DataPath(links[h]))
             /\ Len(FileBytes(DataPath(links[h]))) >= HEADER_SIZE
             /\ RefCount(links[h]) = Cardinality(LinksTo(links[h]))
        /\ \A x \in Blobs : LinksTo(sha1(x)) = {h \in Handles : live[h] = Some(x)}

\* C3 witness: after puts of x and a delete of one of their handles, a link
\* to x remains and the lock is free.
C3_Witness ==
    /\ lock = 0
    /\ \E t \in Threads :
         /\ Returned(t, "delete") /\ ret[t].bytes # None
         /\ LinksTo(sha1(ret[t].bytes[1])) # {}
         /\ RefCount(sha1(ret[t].bytes[1])) = 1

\* C4: puts of identical content x, in any interleaving, all return, with
\* pairwise distinct handles, and leave one content file holding x whose
\* reference count is the number of the handles still linked.
C4_Dedup ==
    \A x \in Blobs :
        LET P == {t \in Threads : ret[t].op = "put" /\ ret[t].bytes = Some(x)}
        IN  /\ \A t \in P : ~ret[t].raised
            /\ \A t, u \in P : t # u => ret[t].h # ret[u].h
            /\ (lock = 0 /\ \E t \in P : ret[t].h \in LinksTo(sha1(x)))
                 => /\ exists(dir, DataPath(sha1(x)))
                    /\ ReadContent(FileBytes(DataPath(sha1(x)))) = x
                    /\ RefCount(sha1(x)) = Cardinality(LinksTo(sha1(x)))

\* C5: handle uniqueness.  The handle a put holds is held by no other put in
\* progress, is not the handle of a put that returned and was not deleted,
\* and is not in the free pool.
C5_HandleUnique ==
    \A t \in Threads :
        HoldsOid(t) =>
            /\ \A u \in Threads : (u # t /\ HoldsOid(u)) => oid[u] # oid[t]
            /\ live[oid[t]] = None
            /\ oid[t] \notin Range(free_objectids)

\* C5 witness: a put holds a handle reissued from the free pool while another
\* handle is live.
C5_Witness ==
    \E t \in Threads :
        /\ HoldsOid(t) /\ obs[t].reissued
        /\ \E h \in Handles : h # oid[t] /\ live[h] # None

\* C6: a get that opened the content file under the lock returns the bytes its
\* handle was bound to at that moment, whatever deletes and puts do to the
\* directory entry before the read ends.
C6_ReadSurvives ==
    \A t \in Threads :
        (ret[t].op = "get" /\ obs[t].linked)
            => (~ret[t].raised /\ obs[t].pinned # None /\ ret[t].bytes = obs[t].pinned)

\* C6 witness: the get returned its bytes although, when it read, the file had
\* been removed from the directory and a later put had created it again.
C6_Witness ==
    \E t \in Threads :
        /\ Returned(t, "get") /\ obs[t].linked
        /\ obs[t].unlinked /\ obs[t].recreated
        /\ ret[t].bytes = obs[t].pinned

\* C7: the lock is released on every exit path: a call that ended with an
\* error does not leave the lock acquired.
C7_LockReleasedOnError ==
    \A t \in Threads : pc[t] = "raised" => lock # t

\* C8: a second delete(h), with h still in the free pool where the first one
\* put it, returns and changes no link, no content file, no reference count,
\* and neither the counter nor the free pool.
C8_DeleteIdempotent ==
    [][\A t \in Threads :
         (pc[t] = "del_body" /\ pc'[t] # "del_body" /\ oid[t] \in Range(free_objectids))
            => (pc'[t] = "idle" /\ UNCHANGED store)]_vars

\* C8 witness: a delete of a handle that is in the free pool has returned.
C8_Witness ==
    \E t \in Threads :
        /\ Returned(t, "delete") /\ ret[t].bytes = None
        /\ ret[t].h \in Range(free_objectids)
        /\ Len(free_objectids) = 1

\* C9: get returns absent exactly when its handle had no link when get held
\* the lock, it returns bytes otherwise, and no step of a get changes a link,
\* a content file (its reference count included), the counter or the pool.
C9_GetAbsentAndFrame ==
    [][\A t \in Threads :
         /\ (pc[t] \in {"get_resolve", "get_read"} /\ pc'[t] # pc[t])
               => /\ UNCHANGED <<links, dir, objectid, free_objectids>>
                  /\ Files' = Files
                  /\ pc'[t] # "raised"
                  /\ pc'[t] = "idle" => ((ret'[t].bytes = None) <=> ~obs[t].linked)
         /\ (pc[t] = "idle" /\ pc'[t] = "get_resolve") => UNCHANGED store]_vars

\* C9 witness: gets have returned absent for a deleted handle and for a handle
\* never allocated.
C9_Witness ==
    \E t, u \in Threads :
        /\ Returned(t, "get") /\ ret[t].bytes = None /\ ret[t].h \in Range(free_objectids)
        /\ Returned(u, "get") /\ ret[u].bytes = None /\ ret[u].h > objectid

\* C10: handle numbering and reuse.  With an empty pool put takes counter + 1;
\* the k-th call on an empty store, when all calls before were puts, takes k;
\* with the pool holding just h, put takes h and leaves the counter; put
\* returns the handle it took; a handle in the pool has no link.
C10_Numbering ==
    /\ [][\A t \in Threads :
            /\ (pc[t] = "put_alloc" /\ pc'[t] # "put_alloc")
                 => /\ free_objectids = << >>
                         => (oid'[t] = objectid + 1 /\ objectid' = objectid + 1)
                    /\ objectid = ncalls - 1 => oid'[t] = ncalls
                    /\ Len(free_objectids) = 1
                         => /\ oid'[t] = free_objectids[1]
                            /\ objectid' = objectid
                            /\ free_objectids' = << >>
            /\ (pc[t] = "put_link" /\ pc'[t] = "idle") => ret'[t].h = oid[t]]_vars
    /\ [](\A h \in Range(free_objectids) : h \notin DOMAIN links)

\* C10 witness: a put was given the deleted handle again, and a get of that
\* handle returned the new content.
C10_Witness ==
    \E t, u \in Threads :
        /\ Returned(u, "put") /\ obs[u].reissued
        /\ Returned(t, "get") /\ ret[t].h = ret[u].h
        /\ ret[t].bytes = ret[u].bytes
        /\ objectid = 1

\* C11: allocator persistence.  A reopen that follows a close() made while no
\* call was in flight starts with the counter and the ordered free pool that
\* the store had at close; and in runs with closes and reopens a put never
\* holds a handle that has a link or is live, and a get of a live handle
\* returns the bytes the handle was bound to.
C11_Persistence ==
    /\ [][(closed /\ ~closed')
            => (objectid' = objectid /\ free_objectids' = free_objectids)]_vars
    /\ [](\A t \in Threads :
            HoldsOid(t) => (oid[t] \notin DOMAIN links /\ live[oid[t]] = None))
    /\ [](\A t \in Threads :
            (ret[t].op = "get" /\ obs[t].expect # None)
                => (~ret[t].raised /\ ret[t].bytes = obs[t].expect))

\* C11 witness: after a close and a reopen, a put has returned the handle that
\* a delete had freed before the close.
C11_Witness ==
    /\ statefile # None /\ ~closed
    /\ statefile[1].free_objectids # << >>
    /\ \E t \in Threads :
         /\ Returned(t, "put") /\ obs[t].reissued
         /\ ret[t].h = ParseInt(statefile[1].free_objectids[1])

\* C12: every call returns.  No call of put, get or delete, for any blob (the
\* empty one included) and any handle, ends without returning, and the lock
\* is only ever held by a thread that has a step of its call left to take, so
\* that no thread waits for the lock forever.
C12_EveryCallReturns ==
    /\ \A t \in Threads : pc[t] # "raised"
    /\ lock # 0 => (InPut(lock) \/ InGet(lock) \/ InDelete(lock))

\* C13 as stated: whenever the lock is free, each handle in 1..counter is in
\* the free pool or has a link: none is allocated but unlinked while a put
\* writes its content.
C13_NoUnlinkedHandle ==
    lock = 0 =>
        \A h \in 1..objectid : h \in Range(free_objectids) \/ h \in DOMAIN links

\* C13: put takes its handle under the lock, before it releases the lock to
\* write the temporary file; it writes the link and increments the count
\* under the lock, in a section entered with the content file in place.
\* Whenever the lock is free, each handle in 1..counter is in the free pool,
\* has a link, or is held by a put that is writing its temporary file or
\* waiting to acquire the lock again.
C13_HandleAccounted ==
    /\ [][\A t \in Threads :
            /\ (pc[t] = "put_alloc" /\ pc'[t] # "put_alloc") => lock = t
            /\ (pc[t] = "put_link" /\ pc'[t] # "put_link")
                 => (lock = t /\ exists(dir, DataPath(sha1(data[t]))))]_vars
    /\ [](lock = 0 =>
            \A h \in 1..objectid :
                \/ h \in Range(free_objectids)
                \/ h \in DOMAIN links
                \/ \E t \in Threads : Writing(t) /\ oid[t] = h)

\* C13 witness: the lock is free while a put that holds a handle without a
\* link writes its temporary file; another handle has a link and a third is
\* in the free pool.
C13_Witness ==
    /\ lock = 0
    /\ \E t \in Threads :
         /\ pc[t] = "put_write"
         /\ oid[t] \notin DOMAIN links /\ oid[t] \notin Range(free_objectids)
    /\ DOMAIN links # {}
    /\ free_objectids # << >>

\* C14 as stated: a put that finds two or more handles in the free pool takes
\* the one freed last and leaves the counter; the counter is incremented only
\* when the pool is empty.
C14_ReuseMostRecent ==
    [][\A t \in Threads :
         (pc[t] = "put_alloc" /\ pc'[t] # "put_alloc")
            => /\ Len(freed) >= 2
                    => (oid'[t] = freed[Len(freed)] /\ objectid' = objectid)
               /\ objectid' # objectid => free_objectids = << >>]_vars

\* C14: a put that finds two or more handles in the free pool takes the one
\* that has been free the longest and leaves the counter; the counter is
\* incremented, by one, only when the pool is empty.
C14_ReuseLeastRecent ==
    [][\A t \in Threads :
         (pc[t] = "put_alloc" /\ pc'[t] # "put_alloc")
            => /\ Len(freed) >= 2
                    => /\ oid'[t] = freed[1]
                       /\ objectid' = objectid
                       /\ Len(free_objectids') = Len(free_objectids) - 1
               /\ objectid' # objectid
                    => (free_objectids = << >> /\ objectid' = objectid + 1)]_vars

\* C14 witness: a put that found two handles in the free pool has returned
\* the one freed first; the other is still in the pool.
C14_Witness ==
    \E t \in Threads :
        /\ Returned(t, "put") /\ obs[t].reissued /\ obs[t].pool = 2
        /\ Len(freed) = 1 /\ freed[1] # ret[t].h
        /\ objectid = 2

\* C15: bulk I/O is never done under the lock.  A thread that is writing the
\* bytes of its temporary file in put, or reading the bytes of the file it
\* opened in get, does not hold the lock, and no step of that I/O acquires
\* it: the calls of other threads are not held up by the I/O.
C15_BulkIOUnlocked ==
    /\ [](\A t \in Threads : BulkIO(t) => lock # t)
    /\ [][\A t \in Threads : (BulkIO(t) /\ pc'[t] # pc[t]) => lock' = lock]_vars

\* C15 witness: while a put is still writing its temporary file, another
\* thread has made and completed a whole put: its handle was taken from the
\* counter after the handle of the put that writes.
C15_Witness ==
    \E t, u \in Threads :
        /\ pc[t] = "put_write" /\ ~obs[t].reissued
        /\ Returned(u, "put") /\ ~obs[u].reissued /\ ret[u].h > oid[t]
        /\ lock = 0

\* C16: no storage leak from the install race.  Every temporary file in data/
\* is the one of a put that has opened it and has not yet passed the test
\* under the lock; there that put removes it when the content file exists,
\* leaving the content file as it is, and renames it to the content file
\* otherwise; no content file is replaced; with no put in progress data/
\* holds content files only.
C16_NoTmpLeak ==
    /\ [](\A p \in Temporary :
            \E t \in Threads :
                /\ pc[t] \in {"put_write", "put_reacquire", "put_install"}
                /\ p = TmpPath(DataPath(sha1(data[t])), oid[t]))
    /\ []((\A t \in Threads : ~InPut(t)) => DOMAIN dir = Canonical)
    /\ [][\A t \in Threads :
            (pc[t] = "put_install" /\ pc'[t] # "put_install")
               => LET datapath == DataPath(sha1(data[t]))
                      tmpfile == TmpPath(datapath, oid[t])
                  IN  /\ exists(dir, tmpfile) /\ ~exists(dir', tmpfile)
                      /\ exists(dir', datapath)
                      /\ dir'[datapath] = IF exists(dir, datapath)
                                          THEN dir[datapath] ELSE dir[tmpfile]
                      /\ \A p \in Canonical : exists(dir', p) /\ dir'[p] = dir[p]
                      /\ Temporary' = Temporary \ {tmpfile}]_vars

\* C16 witness: two puts of the same new content wrote a temporary file each;
\* both have returned, the second after removing its temporary file, and
\* data/ holds the one content file.
C16_Witness ==
    \E t, u \in Threads :
        /\ Returned(t, "put") /\ obs[t].discarded
        /\ Returned(u, "put") /\ ~obs[u].discarded /\ ret[u].bytes = ret[t].bytes
        /\ ret[u].h # ret[t].h
        /\ DOMAIN dir = {DataPath(sha1(ret[t].bytes[1]))}
        /\ RefCount(sha1(ret[t].bytes[1])) = 2

\* C17: temporary paths are private.  Two puts in progress never use the same
\* temporary path, whatever their contents and whether their handles come
\* from the counter or from the free pool; a temporary path is never the path
\* of a content file, in data/ or of any blob; and a temporary file in data/
\* is written by one put only.
C17_TmpPrivate ==
    \A t \in Threads :
        UsesTmp(t) =>
            /\ \A u \in Threads : (u # t /\ UsesTmp(u)) => TmpOf(u) # TmpOf(t)
            /\ TmpOf(t) \notin Canonical
            /\ \A x \in Blobs : TmpOf(t) # DataPath(sha1(x))
            /\ \A u \in Threads :
                 (u # t /\ fhandle[u] # 0 /\ exists(dir, TmpOf(t)))
                    => fhandle[u] # dir[TmpOf(t)]

\* C17 witness: two puts of the same new content are writing at the same
\* time, one with a handle reissued from the free pool, each to its own
\* temporary file.
C17_Witness ==
    \E t, u \in Threads :
        /\ pc[t] = "put_write" /\ pc[u] = "put_write" /\ data[t] = data[u]
        /\ obs[t].reissued /\ ~obs[u].reissued
        /\ TmpOf(t) # TmpOf(u)
        /\ {TmpOf(t), TmpOf(u)} = Temporary
        /\ dir[TmpOf(t)] # dir[TmpOf(u)]

\* C18: a link without its content file is a hard failure.  A delete or a get
\* that finds the link of its handle pointing at a digest with no content
\* file ends with an error, and the delete leaves the link and the free pool
\* (and the rest of the store) as they are.
C18_MissingFileRaises ==
    [][\A t \in Threads :
         LET broken == /\ oid[t] \in DOMAIN links
                       /\ ~exists(dir, DataPath(read_link(links, oid[t])))
         IN  /\ (pc[t] = "del_body" /\ pc'[t] # "del_body" /\ broken)
                  => /\ pc'[t] = "raised" /\ ret'[t].raised
                     /\ links' = links
                     /\ free_objectids' = free_objectids
                     /\ UNCHANGED <<objectid, dir, inodes>>
             /\ (pc[t] = "get_resolve" /\ pc'[t] # "get_resolve" /\ broken)
                  => (pc'[t] = "raised" /\ ret'[t].raised /\ UNCHANGED store)]_vars

\* C18 witness: the delete of a live handle whose content file was removed
\* from outside has ended with an error; the link is still there and the
\* handle is not in the free pool.
C18_Witness ==
    \E t \in Threads :
        /\ pc[t] = "raised" /\ ret[t].op = "delete" /\ ret[t].raised
        /\ live[ret[t].h] # None
        /\ ret[t].h \in DOMAIN links
        /\ ~exists(dir, DataPath(links[ret[t].h]))
        /\ ret[t].h \notin Range(free_objectids)

\* C19: the allocator is well formed on a store opened empty.  The counter
\* never decreases; the free pool holds no handle twice; every handle in the
\* pool and every handle with a link is in 1..counter; no handle of the pool
\* has a link or is held by a put in progress.
C19_AllocatorWellFormed ==
    /\ [][objectid' >= objectid]_vars
    /\ [](/\ Cardinality(Range(free_objectids)) = Len(free_objectids)
          /\ \A h \in Range(free_objectids) \cup DOMAIN links : h \in 1..objectid
          /\ Range(free_objectids) \cap DOMAIN links = {}
          /\ \A t \in Threads :
               HoldsOid(t) => /\ oid[t] \notin Range(free_objectids)
                              /\ oid[t] \in 1..objectid)

\* C19 witness: the counter has reached 3; one handle is in the free pool,
\* another has a link, and the third is held by a put that is writing.
C19_Witness ==
    /\ objectid = 3
    /\ Len(free_objectids) = 1
    /\ Cardinality(DOMAIN links) = 1
    /\ \E t \in Threads :
         /\ Writing(t)
         /\ oid[t] \notin Range(free_objectids) \cup DOMAIN links

====
